---- MODULE Spec2Model ----
(***************************************************************************)
(* Model of Vector<T> (vector.h): a growable array that owns one heap      *)
(* buffer (values), a logical length (sz) and a capacity (max_sz).         *)
(*                                                                         *)
(* Two Vector objects, "a" and "b", live over a small heap of buffers, so  *)
(* that copies, ownership and aliasing are part of the state.  A buffer is *)
(* a function from the 0-based slot indices of the C++ array to values; a  *)
(* free heap cell holds the empty function.  Every member function is a    *)
(* pure operator from (object, heap, arguments) to a call result           *)
(* [v, h, exc, it]: the object and the heap after the call, the exception  *)
(* thrown (NoExc when the call returned) and the iterator returned.  The   *)
(* actions apply these operators to one of the two objects; a call that    *)
(* throws, like a read, leaves the state as it was.                        *)
(***************************************************************************)
EXTENDS Integers, Sequences, FiniteSets

VARIABLES vec, heap, pushed, calls

vars == <<vec, heap, pushed, calls>>

(* ---- bounds of the model ---------------------------------------------- *)

\* Largest capacity an object reaches in the one-object specification.
MaxCap == 10

\* Number of calls made in the two-object specification.
MaxCalls == 2

\* Longest initializer list handed to Vector(std::initializer_list).
MaxList == 6

\* Longest run of push_back calls in the append-only specification.
MaxPush == 11

(* ---- types ------------------------------------------------------------ *)

\* static constexpr size_type min_capacity = 5;
min_capacity == 5

\* value_type: a two-valued T, whose value-initialised value T() is 0.
T == {0, 1}

DefaultT == 0

\* The two Vector objects of the program.
Objs == {"a", "b"}

\* Heap cells: one per object plus the one a reallocation holds for a moment.
BufIds == {1, 2, 3}

\* The null pointer of an object whose lifetime has not begun or has ended.
NullBuf == 0

\* A heap cell that holds no array.
FreeCell == << >>

Max(x, y) == IF x >= y THEN x ELSE y

(* ---- call results ----------------------------------------------------- *)

NoExc == [type |-> "none", what |-> ""]

NoIt == [buf |-> NullBuf, idx |-> 0]

\* throw std::runtime_error(what)
runtime_error(what) == [type |-> "std::runtime_error", what |-> what]

\* A call that returned normally, without an iterator.
Returned(v, h) == [v |-> v, h |-> h, exc |-> NoExc, it |-> NoIt]

\* A call that returned the iterator it.
ReturnedIt(v, h, it) == [v |-> v, h |-> h, exc |-> NoExc, it |-> it]

\* A call that left by an exception, the object and heap being v and h.
Thrown(v, h, what) == [v |-> v, h |-> h, exc |-> runtime_error(what), it |-> NoIt]

(* ---- the heap --------------------------------------------------------- *)

\* The cell std::make_unique<value_type[]> returns: the lowest free one.
NewBuf(h) == CHOOSE b \in BufIds : h[b] = FreeCell /\ \A c \in BufIds : h[c] = FreeCell => b <= c

\* std::make_unique<value_type[]>(n): n value-initialised slots.
make_unique(n) == [i \in 0..(n - 1) |-> DefaultT]

\* An object outside its lifetime.
NoVector == [alive |-> FALSE, sz |-> 0, max_sz |-> 0, values |-> NullBuf]

(* ---- construction, copy, destruction ----------------------------------- *)

\* CopyFirst taking every slot the source array has, whatever cnt is.
CopyFirst_whole(src, cnt, n) ==
  [i \in 0..(n - 1) |-> IF i \in DOMAIN src THEN src[i] ELSE DefaultT]

\* A fresh array of n slots whose first cnt slots are copied from src
\* (std::copy over [0, cnt), or the loops of reserve and shrink_to_fit).
CopyFirst(src, cnt, n) == [i \in 0..(n - 1) |-> IF i < cnt THEN src[i] ELSE DefaultT]

\* Vector() = default, with the member initialisers of lines 27-29.
Vector_default(h) ==
  LET nb == NewBuf(h)
  IN  Returned([alive |-> TRUE, sz |-> 0, max_sz |-> min_capacity, values |-> nb],
               [h EXCEPT ![nb] = make_unique(min_capacity)])

\* explicit Vector(size_type n)
Vector_n(h, n) ==
  LET nb == NewBuf(h)
      cap == Max(n, min_capacity)
  IN  Returned([alive |-> TRUE, sz |-> 0, max_sz |-> cap, values |-> nb],
               [h EXCEPT ![nb] = make_unique(cap)])

\* InitSize taking the floor-adjusted capacity for the length.
InitSize_floor(k) == Max(k, min_capacity)

\* The capacity Vector(std::initializer_list) allocates for a list of k values.
InitCapacity(k) == Max(k, min_capacity)

\* The length Vector(std::initializer_list) sets for a list of k values.
InitSize(k) == k

\* Vector(std::initializer_list<value_type> init); init is a 1-based sequence.
Vector_init(h, init) ==
  LET nb == NewBuf(h)
      cap == InitCapacity(Len(init))
  IN  Returned([alive |-> TRUE, sz |-> InitSize(Len(init)), max_sz |-> cap, values |-> nb],
               [h EXCEPT ![nb] = [i \in 0..(cap - 1) |->
                                    IF i < Len(init) THEN init[i + 1] ELSE DefaultT]])

\* The copy constructor allocating only what the elements need.
Vector_copy_fit(h, other) ==
  LET nb == NewBuf(h)
      cap == Max(other.sz, min_capacity)
  IN  Returned([alive |-> TRUE, sz |-> other.sz, max_sz |-> cap, values |-> nb],
               [h EXCEPT ![nb] = CopyFirst(h[other.values], other.sz, cap)])

\* Vector(const Vector& other)
Vector_copy(h, other) ==
  LET nb == NewBuf(h)
  IN  Returned([alive |-> TRUE, sz |-> other.sz, max_sz |-> other.max_sz, values |-> nb],
               [h EXCEPT ![nb] = CopyFirst(h[other.values], other.sz, other.max_sz)])

\* operator= taking over other's buffer instead of copying it (a shallow copy).
assign_shallow(v, h, other, self) ==
  IF self THEN Returned(v, h)
  ELSE Returned([v EXCEPT !.sz = other.sz, !.max_sz = other.max_sz,
                          !.values = other.values],
                [h EXCEPT ![v.values] = FreeCell])

\* Vector& operator=(const Vector& other); self is (this == &other).
\* The new array is made while the old one is still owned, which is then released.
assign(v, h, other, self) ==
  IF self THEN Returned(v, h)
  ELSE LET nb == NewBuf(h)
       IN  Returned([v EXCEPT !.sz = other.sz, !.max_sz = other.max_sz, !.values = nb],
                    [h EXCEPT ![nb] = CopyFirst(h[other.values], other.sz, other.max_sz),
                              ![v.values] = FreeCell])

\* ~Vector() = default: the unique_ptr releases the buffer.
Vector_destroy(v, h) == Returned(NoVector, [h EXCEPT ![v.values] = FreeCell])

(* ---- queries ---------------------------------------------------------- *)

size(v) == v.sz

capacity(v) == v.max_sz

empty(v) == v.sz = 0

\* The elements of the object, as operator<< walks them: indices 0 .. size()-1.
Elems(v, h) == [i \in 0..(v.sz - 1) |-> h[v.values][i]]

\* IndexThrows checking the index against the capacity instead of the length.
IndexThrows_capacity(v, i) == i >= v.max_sz

\* The guard of operator[]: i >= sz throws.
IndexThrows(v, i) == i >= v.sz

\* reference operator[](size_type i), read through.
index(v, h, i) ==
  IF IndexThrows(v, i) THEN Thrown(v, h, "Index out of bounds")
  ELSE Returned(v, h)

\* v[i] = x: operator[] and a store through the reference it returns.
index_store(v, h, i, x) ==
  IF IndexThrows(v, i) THEN Thrown(v, h, "Index out of bounds")
  ELSE Returned(v, [h EXCEPT ![v.values][i] = x])

(* ---- capacity --------------------------------------------------------- *)

\* clear that also value-initialises every slot of the buffer.
clear_zero_fills(v, h) ==
  Returned([v EXCEPT !.sz = 0],
           [h EXCEPT ![v.values] = [i \in DOMAIN h[v.values] |-> DefaultT]])

\* void clear()
clear(v, h) == Returned([v EXCEPT !.sz = 0], h)

\* reserve whose copy loop stops one element early (i < sz - 1).
reserve_drops_last(v, h, n) ==
  IF n <= v.max_sz THEN Returned(v, h)
  ELSE LET nb == NewBuf(h)
       IN  Returned([v EXCEPT !.values = nb, !.max_sz = n],
                    [h EXCEPT ![nb] = CopyFirst(h[v.values], v.sz - 1, n),
                              ![v.values] = FreeCell])

\* reserve returning early on n < max_sz only: n == max_sz reallocates.
reserve_reallocates_equal(v, h, n) ==
  IF n < v.max_sz THEN Returned(v, h)
  ELSE LET nb == NewBuf(h)
       IN  Returned([v EXCEPT !.values = nb, !.max_sz = n],
                    [h EXCEPT ![nb] = CopyFirst(h[v.values], v.sz, n),
                              ![v.values] = FreeCell])

\* void reserve(size_type n)
reserve(v, h, n) ==
  IF n <= v.max_sz THEN Returned(v, h)
  ELSE LET nb == NewBuf(h)
       IN  Returned([v EXCEPT !.values = nb, !.max_sz = n],
                    [h EXCEPT ![nb] = CopyFirst(h[v.values], v.sz, n),
                              ![v.values] = FreeCell])

\* ShrinkCapacity without the floor: shrink to the length alone.
ShrinkCapacity_nofloor(v) == v.sz

\* std::max(sz, min_capacity), the capacity shrink_to_fit reallocates to.
ShrinkCapacity(v) == Max(v.sz, min_capacity)

\* shrink_to_fit replacing the buffer without the assignment to max_sz.
shrink_to_fit_stale_capacity(v, h) ==
  IF v.sz = v.max_sz THEN Returned(v, h)
  ELSE LET nb == NewBuf(h)
           n  == ShrinkCapacity(v)
       IN  Returned([v EXCEPT !.values = nb],
                    [h EXCEPT ![nb] = CopyFirst(h[v.values], v.sz, n),
                              ![v.values] = FreeCell])

\* void shrink_to_fit()
shrink_to_fit(v, h) ==
  IF v.sz = v.max_sz THEN Returned(v, h)
  ELSE LET nb == NewBuf(h)
           n  == ShrinkCapacity(v)
       IN  Returned([v EXCEPT !.values = nb, !.max_sz = n],
                    [h EXCEPT ![nb] = CopyFirst(h[v.values], v.sz, n),
                              ![v.values] = FreeCell])

(* ---- append and remove at the end ------------------------------------- *)

\* GrowCapacity without growth: reserve(max_sz) returns at once.
GrowCapacity_same(v) == v.max_sz

\* GrowCapacity growing by one slot more than twice.
GrowCapacity_plus1(v) == v.max_sz * 2 + 1

\* max_sz * 2, the capacity push_back and insert grow to.
GrowCapacity(v) == v.max_sz * 2

\* push_back growing one element early (if (sz + 1 >= max_sz)).
push_back_grows_early(v, h, x) ==
  LET r == IF v.sz + 1 >= v.max_sz THEN reserve(v, h, GrowCapacity(v))
           ELSE Returned(v, h)
  IN  Returned([r.v EXCEPT !.sz = r.v.sz + 1],
               [r.h EXCEPT ![r.v.values][r.v.sz] = x])

\* void push_back(value_type x)
push_back(v, h, x) ==
  LET r == IF v.sz = v.max_sz THEN reserve(v, h, GrowCapacity(v)) ELSE Returned(v, h)
  IN  Returned([r.v EXCEPT !.sz = r.v.sz + 1],
               [r.h EXCEPT ![r.v.values][r.v.sz] = x])

\* pop_back without the check for an empty vector.
pop_back_unchecked(v, h) == Returned([v EXCEPT !.sz = v.sz - 1], h)

\* pop_back throwing with the message of operator[] (a pasted throw).
pop_back_index_message(v, h) ==
  IF v.sz = 0 THEN Thrown(v, h, "Index out of bounds")
  ELSE Returned([v EXCEPT !.sz = v.sz - 1], h)

\* void pop_back()
pop_back(v, h) ==
  IF v.sz = 0 THEN Thrown(v, h, "Cannot pop from empty vector")
  ELSE Returned([v EXCEPT !.sz = v.sz - 1], h)

(* ---- iterators -------------------------------------------------------- *)

\* An iterator is a pointer: a heap cell and a slot offset into it.
Iter(b, k) == [buf |-> b, idx |-> k]

\* iterator begin()
begin(v) == Iter(v.values, 0)

\* end() at the capacity (values.get() + max_sz).
end_at_capacity(v) == Iter(v.values, v.max_sz)

\* iterator end()
end(v) == Iter(v.values, v.sz)

\* operator-(lop, rop) for two pointers into the same array: the cursors
\* handed to insert and erase point into the buffer the object owns.
Distance(lop, rop) == lop.idx - rop.idx

\* reference operator*() const
deref(h, it) == h[it.buf][it.idx]

\* Iterator& operator++()
increment(it) == Iter(it.buf, it.idx + 1)

\* bool operator==(const ConstIterator& other) const: ptr == other.ptr
equal(lop, rop) == lop.buf = rop.buf /\ lop.idx = rop.idx

\* bool operator!=(const ConstIterator& other) const: ptr != other.ptr
not_equal(lop, rop) == ~(lop.buf = rop.buf /\ lop.idx = rop.idx)

(* ---- positional insert and erase -------------------------------------- *)

\* The guard of insert: diff < 0 || (size_type)diff > sz throws.
InsertThrows(v, diff) == diff < 0 \/ diff > v.sz

\* The guard of erase: diff < 0 || (size_type)diff >= sz throws.
EraseThrows(v, diff) == diff < 0 \/ diff >= v.sz

\* ShiftRight copying upwards (for (i = current; i < sz; ++i)): every slot
\* above current receives the value that was at current.
ShiftRight_ascending(arr, i, current) ==
  [j \in DOMAIN arr |-> IF current < j /\ j <= i THEN arr[current] ELSE arr[j]]

RECURSIVE ShiftRight(_, _, _)
\* for (auto i{sz}; i-- > current;) values[i + 1] = values[i];
\* called with i the value before the test: the test reads i, then decrements.
ShiftRight(arr, i, current) ==
  IF i > current
  THEN ShiftRight([arr EXCEPT ![(i - 1) + 1] = arr[i - 1]], i - 1, current)
  ELSE arr

RECURSIVE ShiftLeft(_, _, _)
\* for (auto i{current}; i < sz - 1; ++i) values[i] = values[i + 1];
ShiftLeft(arr, i, sz) ==
  IF i < sz - 1
  THEN ShiftLeft([arr EXCEPT ![i] = arr[i + 1]], i + 1, sz)
  ELSE arr

\* insert growing the buffer before it validates the cursor.
insert_grows_first(v, h, pos, val) ==
  LET diff == Distance(pos, begin(v))
      r == IF v.sz >= v.max_sz THEN reserve(v, h, GrowCapacity(v)) ELSE Returned(v, h)
  IN  IF InsertThrows(v, diff) THEN Thrown(r.v, r.h, "Iterator out of bounds")
      ELSE LET current == diff
               shifted == ShiftRight(r.h[r.v.values], r.v.sz, current)
           IN  ReturnedIt([r.v EXCEPT !.sz = r.v.sz + 1],
                          [r.h EXCEPT ![r.v.values] = [shifted EXCEPT ![current] = val]],
                          Iter(r.v.values, current))

\* iterator insert(const_iterator pos, const_reference val)
insert(v, h, pos, val) ==
  LET diff == Distance(pos, begin(v))
  IN  IF InsertThrows(v, diff) THEN Thrown(v, h, "Iterator out of bounds")
      ELSE LET current == diff
               r == IF v.sz >= v.max_sz THEN reserve(v, h, GrowCapacity(v))
                    ELSE Returned(v, h)
               shifted == ShiftRight(r.h[r.v.values], r.v.sz, current)
           IN  ReturnedIt([r.v EXCEPT !.sz = r.v.sz + 1],
                          [r.h EXCEPT ![r.v.values] = [shifted EXCEPT ![current] = val]],
                          Iter(r.v.values, current))

\* erase returning the cursor after the erased position (current + 1).
erase_returns_next(v, h, pos) ==
  LET diff == Distance(pos, begin(v))
  IN  IF EraseThrows(v, diff) THEN Thrown(v, h, "Iterator out of bounds")
      ELSE LET current == diff
           IN  ReturnedIt([v EXCEPT !.sz = v.sz - 1],
                          [h EXCEPT ![v.values] = ShiftLeft(h[v.values], current, v.sz)],
                          Iter(v.values, current + 1))

\* erase whose shift loop starts one slot late (i{current + 1}).
erase_shifts_late(v, h, pos) ==
  LET diff == Distance(pos, begin(v))
  IN  IF EraseThrows(v, diff) THEN Thrown(v, h, "Iterator out of bounds")
      ELSE LET current == diff
           IN  ReturnedIt([v EXCEPT !.sz = v.sz - 1],
                          [h EXCEPT ![v.values] = ShiftLeft(h[v.values], current + 1, v.sz)],
                          Iter(v.values, current))

\* iterator erase(const_iterator pos)
erase(v, h, pos) ==
  LET diff == Distance(pos, begin(v))
  IN  IF EraseThrows(v, diff) THEN Thrown(v, h, "Iterator out of bounds")
      ELSE LET current == diff
           IN  ReturnedIt([v EXCEPT !.sz = v.sz - 1],
                          [h EXCEPT ![v.values] = ShiftLeft(h[v.values], current, v.sz)],
                          Iter(v.values, current))

(* ---- the slots the member functions read and write ------------------- *)

\* The number of slots of the array in cell b of heap h.
Slots(h, b) == Cardinality(DOMAIN h[b])

\* An access to slot i of an array of n slots.
Access(i, n) == [idx |-> i, slots |-> n]

\* dst[i] = src[i] for i in [0, cnt): the loops of reserve and shrink_to_fit
\* and the std::copy of the copy operations.
CopyAccesses(src, dst, cnt) ==
  {Access(i, src) : i \in 0..(cnt - 1)} \cup {Access(i, dst) : i \in 0..(cnt - 1)}

\* The accesses of reserve(n): none when it returns early.
reserve_accesses(v, h, n) ==
  IF n <= v.max_sz THEN {}
  ELSE LET r == reserve(v, h, n)
       IN  CopyAccesses(Slots(h, v.values), Slots(r.h, r.v.values), v.sz)

\* The accesses of shrink_to_fit(): none when it returns early.
shrink_to_fit_accesses(v, h) ==
  IF v.sz = v.max_sz THEN {}
  ELSE LET r == shrink_to_fit(v, h)
       IN  CopyAccesses(Slots(h, v.values), Slots(r.h, r.v.values), v.sz)

\* The accesses of push_back(x): those of reserve, then values[sz++] = x.
push_back_accesses(v, h) ==
  LET grows == v.sz = v.max_sz
      r == IF grows THEN reserve(v, h, GrowCapacity(v)) ELSE Returned(v, h)
  IN  (IF grows THEN reserve_accesses(v, h, GrowCapacity(v)) ELSE {})
      \cup {Access(r.v.sz, Slots(r.h, r.v.values))}

\* The accesses of operator[](i): values[i] after the check.
index_accesses(v, h, i) ==
  IF IndexThrows(v, i) THEN {} ELSE {Access(i, Slots(h, v.values))}

RECURSIVE ShiftRightAccesses(_, _, _)
\* for (auto i{sz}; i-- > current;) values[i + 1] = values[i]; in an array of
\* n slots. The value i wraps to after the last test is not used as an index.
ShiftRightAccesses(n, i, current) ==
  IF i > current
  THEN {Access((i - 1) + 1, n), Access(i - 1, n)} \cup ShiftRightAccesses(n, i - 1, current)
  ELSE {}

RECURSIVE ShiftLeftAccesses(_, _, _)
\* for (auto i{current}; i < sz - 1; ++i) values[i] = values[i + 1]; in an
\* array of n slots; sz >= 1 after the check, so sz - 1 does not wrap.
ShiftLeftAccesses(n, i, sz) ==
  IF i < sz - 1
  THEN {Access(i, n), Access(i + 1, n)} \cup ShiftLeftAccesses(n, i + 1, sz)
  ELSE {}

\* The accesses of insert(pos, val): none when it throws; else those of
\* reserve, the shift loop, and values[current] = val.
insert_accesses(v, h, pos) ==
  LET diff == Distance(pos, begin(v))
  IN  IF InsertThrows(v, diff) THEN {}
      ELSE LET current == diff
               grows == v.sz >= v.max_sz
               r == IF grows THEN reserve(v, h, GrowCapacity(v)) ELSE Returned(v, h)
               n == Slots(r.h, r.v.values)
           IN  (IF grows THEN reserve_accesses(v, h, GrowCapacity(v)) ELSE {})
               \cup ShiftRightAccesses(n, r.v.sz, current)
               \cup {Access(current, n)}

\* The accesses of erase(pos): none when it throws; else the shift loop.
erase_accesses(v, h, pos) ==
  LET diff == Distance(pos, begin(v))
  IN  IF EraseThrows(v, diff) THEN {}
      ELSE ShiftLeftAccesses(Slots(h, v.values), diff, v.sz)

\* The accesses of Vector(const Vector& other).
Vector_copy_accesses(h, other) ==
  LET r == Vector_copy(h, other)
  IN  CopyAccesses(Slots(h, other.values), Slots(r.h, r.v.values), other.sz)

\* The accesses of operator=(const Vector& other): none on self-assignment.
assign_accesses(v, h, other, self) ==
  IF self THEN {}
  ELSE LET r == assign(v, h, other, FALSE)
       IN  CopyAccesses(Slots(h, other.values), Slots(r.h, r.v.values), other.sz)

(* ---- the state machine ------------------------------------------------ *)

\* The lists Vector(std::initializer_list) is constructed from.
RECURSIVE Lists(_)
Lists(n) == IF n = 0 THEN {<< >>} ELSE Lists(n - 1) \cup [1..n -> T]

\* The cursors a caller hands to insert and erase: begin() + k.
Cursors(v) == {Iter(v.values, k) : k \in -1..(v.sz + 1)}

EmptyHeap == [b \in BufIds |-> FreeCell]

\* The state in which object "a" has been constructed with outcome r.
Constructed(r) ==
  /\ vec = [c \in Objs |-> IF c = "a" THEN r.v ELSE NoVector]
  /\ heap = r.h
  /\ pushed = << >>
  /\ calls = 0

(* ---- Spec: one object, every member function, any number of calls ------ *)

\* Object "a" takes the outcome r of a call on it.
Call(r) ==
  /\ r.v.max_sz <= MaxCap
  /\ vec' = [vec EXCEPT !["a"] = r.v]
  /\ heap' = r.h
  /\ UNCHANGED <<pushed, calls>>

Init == Constructed(Vector_default(EmptyHeap))

ConstructDefault == ~vec["a"].alive /\ Call(Vector_default(heap))

ConstructN(n) == ~vec["a"].alive /\ Call(Vector_n(heap, n))

ConstructInit(init) == ~vec["a"].alive /\ Call(Vector_init(heap, init))

AssignSelf == vec["a"].alive /\ Call(assign(vec["a"], heap, vec["a"], TRUE))

Destroy == vec["a"].alive /\ Call(Vector_destroy(vec["a"], heap))

Clear == vec["a"].alive /\ Call(clear(vec["a"], heap))

Reserve(n) == vec["a"].alive /\ Call(reserve(vec["a"], heap, n))

ShrinkToFit == vec["a"].alive /\ Call(shrink_to_fit(vec["a"], heap))

PushBack(x) == vec["a"].alive /\ Call(push_back(vec["a"], heap, x))

PopBack == vec["a"].alive /\ Call(pop_back(vec["a"], heap))

Index(i) == vec["a"].alive /\ Call(index(vec["a"], heap, i))

IndexStore(i, x) == vec["a"].alive /\ Call(index_store(vec["a"], heap, i, x))

Insert(pos, val) == vec["a"].alive /\ Call(insert(vec["a"], heap, pos, val))

Erase(pos) == vec["a"].alive /\ Call(erase(vec["a"], heap, pos))

Next ==
  \/ ConstructDefault
  \/ \E n \in 0..MaxCap : ConstructN(n)
  \/ \E init \in Lists(MaxList) : ConstructInit(init)
  \/ AssignSelf
  \/ Destroy
  \/ Clear
  \/ \E n \in (vec["a"].max_sz - 1)..MaxCap : Reserve(n)
  \/ ShrinkToFit
  \/ \E x \in T : PushBack(x)
  \/ PopBack
  \/ \E i \in 0..vec["a"].max_sz : Index(i)
  \/ \E i \in 0..vec["a"].sz, x \in T : IndexStore(i, x)
  \/ \E pos \in Cursors(vec["a"]), x \in T : Insert(pos, x)
  \/ \E pos \in Cursors(vec["a"]) : Erase(pos)

Spec == Init /\ [][Next]_vars

(* ---- SpecCopy: two objects, at most MaxCalls calls --------------------- *)

\* Object c takes the outcome r of one of the MaxCalls calls.
Step(c, r) ==
  /\ calls < MaxCalls
  /\ calls' = calls + 1
  /\ vec' = [vec EXCEPT ![c] = r.v]
  /\ heap' = r.h
  /\ UNCHANGED pushed

InitCopy ==
  \E init \in Lists(min_capacity) :
    LET a == Vector_init(EmptyHeap, init)
        b == Vector_copy(a.h, a.v)
    IN  /\ \/ vec = [c \in Objs |-> IF c = "a" THEN a.v ELSE NoVector] /\ heap = a.h
           \/ vec = [c \in Objs |-> IF c = "a" THEN a.v ELSE b.v] /\ heap = b.h
        /\ pushed = << >>
        /\ calls = 0

CopyConstructDefault(c) == ~vec[c].alive /\ Step(c, Vector_default(heap))

CopyConstructCopy(c, d) ==
  ~vec[c].alive /\ vec[d].alive /\ Step(c, Vector_copy(heap, vec[d]))

CopyAssign(c, d) ==
  vec[c].alive /\ vec[d].alive /\ Step(c, assign(vec[c], heap, vec[d], c = d))

CopyDestroy(c) == vec[c].alive /\ Step(c, Vector_destroy(vec[c], heap))

CopyClear(c) == vec[c].alive /\ Step(c, clear(vec[c], heap))

CopyReserve(c, n) == vec[c].alive /\ Step(c, reserve(vec[c], heap, n))

CopyShrinkToFit(c) == vec[c].alive /\ Step(c, shrink_to_fit(vec[c], heap))

CopyPushBack(c, x) == vec[c].alive /\ Step(c, push_back(vec[c], heap, x))

CopyPopBack(c) == vec[c].alive /\ Step(c, pop_back(vec[c], heap))

CopyIndexStore(c, i, x) == vec[c].alive /\ Step(c, index_store(vec[c], heap, i, x))

CopyInsert(c, pos, val) == vec[c].alive /\ Step(c, insert(vec[c], heap, pos, val))

CopyErase(c, pos) == vec[c].alive /\ Step(c, erase(vec[c], heap, pos))

\* The calls on object c.
NextOn(c) ==
  \/ CopyConstructDefault(c)
  \/ \E d \in Objs : CopyConstructCopy(c, d)
  \/ \E d \in Objs : CopyAssign(c, d)
  \/ CopyDestroy(c)
  \/ CopyClear(c)
  \/ \E n \in {vec[c].max_sz, vec[c].max_sz + 1} : CopyReserve(c, n)
  \/ CopyShrinkToFit(c)
  \/ \E x \in T : CopyPushBack(c, x)
  \/ CopyPopBack(c)
  \/ \E i \in {0, vec[c].sz}, x \in T : CopyIndexStore(c, i, x)
  \/ \E pos \in {begin(vec[c]), end(vec[c])}, x \in T : CopyInsert(c, pos, x)
  \/ \E pos \in {begin(vec[c]), end(vec[c])} : CopyErase(c, pos)

NextCopy == \E c \in Objs : NextOn(c)

SpecCopy == InitCopy /\ [][NextCopy]_vars

(* ---- SpecAppend: push_back alone, from an empty default-constructed a -- *)

\* push_back(x) on "a", the driver keeping the values it has handed over.
AppendValue(x) ==
  /\ Len(pushed) < MaxPush
  /\ LET r == push_back(vec["a"], heap, x)
     IN  /\ vec' = [vec EXCEPT !["a"] = r.v]
         /\ heap' = r.h
  /\ pushed' = Append(pushed, x)
  /\ UNCHANGED calls

NextAppend == \E x \in T : AppendValue(x)

SpecAppend == Init /\ [][NextAppend]_vars

(* ---- SpecGrow: push_back and insert alone, from an empty a ------------- *)

\* Object "a" takes the outcome r of a call that may grow it.
Grow(r) ==
  /\ size(vec["a"]) < MaxPush
  /\ vec' = [vec EXCEPT !["a"] = r.v]
  /\ heap' = r.h
  /\ UNCHANGED <<pushed, calls>>

GrowPushBack(x) == Grow(push_back(vec["a"], heap, x))

GrowInsert(pos, val) == Grow(insert(vec["a"], heap, pos, val))

NextGrow ==
  \/ \E x \in T : GrowPushBack(x)
  \/ \E pos \in Cursors(vec["a"]), x \in T : GrowInsert(pos, x)

SpecGrow == Init /\ [][NextGrow]_vars

(* ---- SpecEdit: the calls that edit the elements, from an empty a ------- *)

\* push_back, pop_back, clear, element writes, insert and erase: the capacity
\* changes by doubling alone, and the slack keeps what the calls leave in it.
NextEdit ==
  \/ \E x \in T : PushBack(x)
  \/ PopBack
  \/ Clear
  \/ \E i \in 0..vec["a"].sz, x \in T : IndexStore(i, x)
  \/ \E pos \in Cursors(vec["a"]), x \in T : Insert(pos, x)
  \/ \E pos \in Cursors(vec["a"]) : Erase(pos)

SpecEdit == Init /\ [][NextEdit]_vars

(* ---- properties ------------------------------------------------------- *)

\* The objects within their lifetime.
Live == {c \in Objs : vec[c].alive}

WithinCapacity(v) == 0 <= size(v) /\ size(v) <= capacity(v)

\* C1: in every reachable state 0 <= size() <= capacity() holds of every live
\* object, whatever constructions, mutations and failing calls led there, and
\* of the copy-constructed and of the copy-assigned copy of it.
C1_SizeWithinCapacity ==
  \A c \in Live :
    LET cp == Vector_copy(heap, vec[c])
    IN  /\ WithinCapacity(vec[c])
        /\ WithinCapacity(cp.v)
        /\ WithinCapacity(assign(cp.v, cp.h, vec[c], FALSE).v)

\* C1 witness: a full object that has grown to twice the capacity floor and
\* holds both values.
C1_Witness ==
  /\ vec["a"].alive
  /\ size(vec["a"]) = capacity(vec["a"])
  /\ capacity(vec["a"]) = 2 * min_capacity
  /\ \E i, j \in 0..(size(vec["a"]) - 1) :
       heap[vec["a"].values][i] # heap[vec["a"].values][j]

\* C2: capacity() >= min_capacity holds of every live object in every reachable
\* state, of its copies, and of what shrink_to_fit makes of it.
C2_CapacityFloor ==
  \A c \in Live :
    LET cp == Vector_copy(heap, vec[c])
    IN  /\ capacity(vec[c]) >= min_capacity
        /\ capacity(cp.v) >= min_capacity
        /\ capacity(assign(cp.v, cp.h, vec[c], FALSE).v) >= min_capacity
        /\ capacity(shrink_to_fit(vec[c], heap).v) >= min_capacity

\* C2 witness: an emptied object above the floor, with a stale value left in
\* its buffer, which shrink_to_fit takes down to exactly the floor.
C2_Witness ==
  LET v == vec["a"]
  IN  /\ v.alive
      /\ size(v) = 0
      /\ capacity(v) > min_capacity
      /\ \E i \in 0..(capacity(v) - 1) : heap[v.values][i] # DefaultT
      /\ capacity(shrink_to_fit(v, heap).v) = min_capacity

\* The indices handed to operator[]: every slot of the buffer and two beyond.
Indices(v) == 0..(capacity(v) + 1)

Threw(r) == r.exc # NoExc

\* The call with outcome r left the object v and the heap h as they were.
Untouched(r, v, h) == r.v = v /\ r.h = h

\* C3: a failing call (operator[] with i >= size(), pop_back on an empty
\* object, insert or erase with an out-of-range cursor) leaves size(),
\* capacity() and every slot of the buffer as they were; a failing insert on a
\* full object does not grow it.
C3_FailingCallChangesNothing ==
  \A c \in Live :
    LET v == vec[c]
    IN  /\ \A i \in Indices(v) :
             /\ Threw(index(v, heap, i)) => Untouched(index(v, heap, i), v, heap)
             /\ \A x \in T : Threw(index_store(v, heap, i, x))
                               => Untouched(index_store(v, heap, i, x), v, heap)
        /\ Threw(pop_back(v, heap)) => Untouched(pop_back(v, heap), v, heap)
        /\ \A pos \in Cursors(v) :
             /\ \A x \in T : Threw(insert(v, heap, pos, x))
                               => Untouched(insert(v, heap, pos, x), v, heap)
             /\ Threw(erase(v, heap, pos)) => Untouched(erase(v, heap, pos), v, heap)

\* C3 witness: a full object holding a non-default value, on which insert at
\* end() + 1 throws and leaves the capacity as it is.
C3_Witness ==
  LET v == vec["a"]
      r == insert(v, heap, Iter(v.values, size(v) + 1), DefaultT)
  IN  /\ v.alive
      /\ size(v) = capacity(v)
      /\ \E i \in 0..(size(v) - 1) : heap[v.values][i] # DefaultT
      /\ Threw(r)
      /\ capacity(r.v) = capacity(v)

\* C4: operator[] throws iff i >= size(); pop_back throws iff size() = 0;
\* insert throws iff the cursor's distance from begin() is negative or greater
\* than size(); erase throws iff it is negative or at least size().
C4_ThrowsExactlyOutOfRange ==
  \A c \in Live :
    LET v == vec[c]
    IN  /\ \A i \in Indices(v) :
             /\ Threw(index(v, heap, i)) <=> (i >= size(v))
             /\ \A x \in T : Threw(index_store(v, heap, i, x)) <=> (i >= size(v))
        /\ Threw(pop_back(v, heap)) <=> (size(v) = 0)
        /\ \A pos \in Cursors(v) :
             LET d == Distance(pos, begin(v))
             IN  /\ \A x \in T : Threw(insert(v, heap, pos, x)) <=> (d < 0 \/ d > size(v))
                 /\ Threw(erase(v, heap, pos)) <=> (d < 0 \/ d >= size(v))

\* C4 witness: an object whose slot at index size(), inside the capacity,
\* holds a stale value, and on which operator[] throws at that index.
C4_Witness ==
  LET v == vec["a"]
  IN  /\ v.alive
      /\ 0 < size(v)
      /\ size(v) < capacity(v)
      /\ heap[v.values][size(v)] # DefaultT
      /\ Threw(index(v, heap, size(v)))
      /\ ~Threw(index(v, heap, size(v) - 1))

\* C5: after push_back of the values pushed[1..N] in order on an empty
\* default-constructed object, size() = N and operator[] gives pushed[i + 1] at
\* every index i < N.
C5_AppendedInOrder ==
  LET v == vec["a"]
  IN  /\ size(v) = Len(pushed)
      /\ \A i \in 0..(Len(pushed) - 1) :
           ~Threw(index(v, heap, i)) /\ heap[v.values][i] = pushed[i + 1]

\* C5 witness: MaxPush values pushed, the capacity having doubled twice.
C5_Witness ==
  /\ Len(pushed) = MaxPush
  /\ capacity(vec["a"]) = 4 * min_capacity
  /\ \E i \in 1..MaxPush : pushed[i] # DefaultT

\* C6: push_back and insert change the capacity only when size() = capacity()
\* before the call, and then to exactly twice the old capacity; a call that
\* changes a full object has doubled it, and the capacity never decreases.
C6_GrowthDoubles ==
  [][LET old == vec["a"]
         new == vec'["a"]
     IN  /\ capacity(new) # capacity(old)
              => size(old) = capacity(old) /\ capacity(new) = 2 * capacity(old)
         /\ size(old) = capacity(old) => capacity(new) = 2 * capacity(old)
         /\ capacity(new) >= capacity(old)]_vars

\* C6 witness: the capacity has doubled twice (this specification has no
\* reserve: push_back and insert alone have grown the object).
C6_Witness ==
  /\ capacity(vec["a"]) = 4 * min_capacity
  /\ size(vec["a"]) = 2 * min_capacity + 1

\* C7: for every valid insert position k in [0, size()] and value x, insert
\* at k returns an iterator into the object's buffer after the call, and erase
\* on that iterator restores size() and the elements, also when the insert
\* doubled the capacity.
C7_InsertEraseRoundTrip ==
  \A c \in Live :
    LET v == vec[c]
    IN  \A k \in 0..size(v), x \in T :
          LET ins == insert(v, heap, Iter(v.values, k), x)
              era == erase(ins.v, ins.h, ins.it)
          IN  /\ ~Threw(ins)
              /\ ins.it.buf = ins.v.values
              /\ ~Threw(era)
              /\ size(era.v) = size(v)
              /\ Elems(era.v, era.h) = Elems(v, heap)

\* C7 witness: a full object holding both values, on which insert doubles the
\* capacity before erase takes the value out again.
C7_Witness ==
  LET v == vec["a"]
  IN  /\ v.alive
      /\ size(v) = capacity(v)
      /\ \E i, j \in 0..(size(v) - 1) : heap[v.values][i] # heap[v.values][j]
      /\ \A x \in T : capacity(insert(v, heap, begin(v), x).v) = 2 * capacity(v)

\* The mutating calls on an object v: push_back, pop_back, clear, reserve,
\* shrink_to_fit, element writes, insert and erase, with every argument of the
\* input sets.
Mutations(v, h) ==
  {push_back(v, h, x) : x \in T}
  \cup {pop_back(v, h), clear(v, h), shrink_to_fit(v, h)}
  \cup {reserve(v, h, n) : n \in {capacity(v), capacity(v) + 1}}
  \cup {index_store(v, h, i, x) : i \in 0..size(v), x \in T}
  \cup {insert(v, h, pos, x) : pos \in Cursors(v), x \in T}
  \cup {erase(v, h, pos) : pos \in Cursors(v)}

\* C8: with two live objects, one a copy of the other or not, no mutating call
\* on one of them changes the other's buffer (its size() and capacity() are
\* fields of the other object, which the call does not have).
C8_CopiesIndependent ==
  \A c \in Live, d \in Live :
    c # d => /\ vec[c].values # vec[d].values
             /\ \A r \in Mutations(vec[c], heap) :
                  /\ r.h[vec[d].values] = heap[vec[d].values]
                  /\ r.v.values # vec[d].values

\* C8 witness: after a copy and mutations, the two objects hold different
\* elements in different buffers.
C8_Witness ==
  /\ Live = Objs
  /\ calls >= 2
  /\ size(vec["a"]) = size(vec["b"])
  /\ size(vec["a"]) > 0
  /\ Elems(vec["a"], heap) # Elems(vec["b"], heap)

\* The object r.v in the heap r.h mirrors the object o of the heap h.
Mirrors(r, o, h) ==
  /\ size(r.v) = size(o)
  /\ capacity(r.v) = capacity(o)
  /\ Elems(r.v, r.h) = Elems(o, h)

\* C9: the copy-constructed copy of a live object, and every live object
\* after copy-assignment from it, has its size(), its capacity() and its
\* elements; assigning an object to itself changes neither the object (its
\* buffer included) nor the heap.
C9_CopyMirrorsSource ==
  \A d \in Live :
    /\ Mirrors(Vector_copy(heap, vec[d]), vec[d], heap)
    /\ \A c \in Live :
         LET r == assign(vec[c], heap, vec[d], c = d)
         IN  /\ Mirrors(r, vec[d], heap)
             /\ c = d => Untouched(r, vec[c], heap)
             /\ c # d => r.v.values # vec[d].values

\* C9 witness: two live objects, the target of a coming assignment having the
\* larger capacity and other elements than the source.
C9_Witness ==
  /\ Live = Objs
  /\ capacity(vec["a"]) > capacity(vec["b"])
  /\ size(vec["b"]) > 0
  /\ Elems(vec["a"], heap) # Elems(vec["b"], heap)
  /\ capacity(assign(vec["a"], heap, vec["b"], FALSE).v) = capacity(vec["b"])

\* C10 as stated: after construction from a list of k values, size() and
\* capacity() are equal and both max(k, min_capacity).
C10_AsStated ==
  ~vec["a"].alive =>
    \A init \in Lists(MaxList) :
      LET r == Vector_init(heap, init)
      IN  /\ size(r.v) = capacity(r.v)
          /\ capacity(r.v) = Max(Len(init), min_capacity)

\* C10 as amended: after construction from a list of k values, size() = k and
\* capacity() = max(k, min_capacity), so the two are equal only for
\* k >= min_capacity; the buffer holds the listed values at indices [0, k).
C10_InitListLength ==
  ~vec["a"].alive =>
    \A init \in Lists(MaxList) :
      LET r == Vector_init(heap, init)
      IN  /\ size(r.v) = Len(init)
          /\ capacity(r.v) = Max(Len(init), min_capacity)
          /\ (size(r.v) = capacity(r.v)) <=> (Len(init) >= min_capacity)
          /\ \A i \in 0..(Len(init) - 1) : r.h[r.v.values][i] = init[i + 1]

\* C10 witness: no object lives, and constructing one from a list shorter
\* than the floor gives a length below the capacity.
C10_Witness ==
  /\ ~vec["a"].alive
  /\ \E init \in Lists(MaxList) :
       /\ Len(init) < min_capacity
       /\ size(Vector_init(heap, init).v) < capacity(Vector_init(heap, init).v)

\* The exceptions of the three failure conditions on object v: operator[] at
\* size(), pop_back, and insert and erase at end() + 1.
IndexError(v, h) == index(v, h, size(v)).exc

PopError(v, h) == pop_back(v, h).exc

InsertError(v, h) == insert(v, h, Iter(v.values, size(v) + 1), DefaultT).exc

EraseError(v, h) == erase(v, h, Iter(v.values, size(v) + 1)).exc

\* C11 as stated: the three failure conditions are signalled as three distinct
\* error kinds, so that the kind alone tells which condition was violated.
C11_AsStated ==
  \A c \in Live :
    LET v == vec[c]
    IN  /\ IndexError(v, heap).type # InsertError(v, heap).type
        /\ IndexError(v, heap).type # EraseError(v, heap).type
        /\ size(v) = 0 => /\ PopError(v, heap).type # IndexError(v, heap).type
                          /\ PopError(v, heap).type # InsertError(v, heap).type

\* C11 as amended: the three failure conditions are all signalled as the one
\* kind std::runtime_error; they differ in the message alone, which is one per
\* condition (insert and erase share theirs).
C11_OneKindThreeMessages ==
  \A c \in Live :
    LET v == vec[c]
        errors == {IndexError(v, heap), InsertError(v, heap), EraseError(v, heap)}
                  \cup (IF size(v) = 0 THEN {PopError(v, heap)} ELSE {})
    IN  /\ \A e \in errors : e.type = "std::runtime_error"
        /\ IndexError(v, heap).what # InsertError(v, heap).what
        /\ InsertError(v, heap).what = EraseError(v, heap).what
        /\ size(v) = 0 => /\ PopError(v, heap).what # IndexError(v, heap).what
                          /\ PopError(v, heap).what # InsertError(v, heap).what
        /\ size(v) > 0 => PopError(v, heap) = NoExc

\* C11 witness: an emptied object, on which all three conditions fail at once.
C11_Witness ==
  LET v == vec["a"]
  IN  /\ v.alive
      /\ size(v) = 0
      /\ \E i \in 0..(capacity(v) - 1) : heap[v.values][i] # DefaultT
      /\ Threw(index(v, heap, 0))
      /\ Threw(pop_back(v, heap))
      /\ Threw(erase(v, heap, begin(v)))

\* The sequence s with x put in front of its element k.
InsertedAt(s, L, k, x) ==
  [i \in 0..L |-> IF i < k THEN s[i] ELSE IF i = k THEN x ELSE s[i - 1]]

\* C12: on elements s of length L and a cursor at index k in [0, L], insert of
\* x succeeds, leaves s[0..k) ++ [x] ++ s[k..L) and size() L + 1, and returns
\* a cursor at index k of the buffer the object has after the call, where x
\* is; so at k = 0, at k = L and when L = capacity() and the buffer is replaced.
C12_InsertAtCursor ==
  \A c \in Live :
    LET v == vec[c]
        L == size(v)
    IN  \A k \in 0..L, x \in T :
          LET r == insert(v, heap, Iter(v.values, k), x)
          IN  /\ ~Threw(r)
              /\ size(r.v) = L + 1
              /\ Elems(r.v, r.h) = InsertedAt(Elems(v, heap), L, k, x)
              /\ r.it = Iter(r.v.values, k)
              /\ Distance(r.it, begin(r.v)) = k
              /\ r.h[r.it.buf][r.it.idx] = x
              /\ L = capacity(v) => r.v.values # v.values

\* C12 witness: a full object holding both values, on which an insert in the
\* middle moves the elements to a new buffer.
C12_Witness ==
  LET v == vec["a"]
  IN  /\ v.alive
      /\ size(v) = capacity(v)
      /\ \E k \in 1..(size(v) - 1) :
           /\ heap[v.values][k - 1] # heap[v.values][k]
           /\ LET r == insert(v, heap, Iter(v.values, k), heap[v.values][k - 1])
              IN  /\ r.v.values # v.values
                  /\ r.h[r.it.buf][r.it.idx] # r.h[r.it.buf][r.it.idx + 1]

\* The sequence s of length L without its element k.
ErasedAt(s, L, k) == [i \in 0..(L - 2) |-> IF i < k THEN s[i] ELSE s[i + 1]]

\* C13: on elements s of length L >= 1 and a cursor at index k in [0, L),
\* erase succeeds, leaves s[0..k) ++ s[k+1..L), size() L - 1 and capacity()
\* and the buffer as they were, and returns a cursor at index k of the buffer:
\* at the former element k + 1 when k < L - 1, equal to end() when k = L - 1.
C13_EraseAtCursor ==
  \A c \in Live :
    LET v == vec[c]
        L == size(v)
        s == Elems(v, heap)
    IN  \A k \in 0..(L - 1) :
          LET r == erase(v, heap, Iter(v.values, k))
          IN  /\ ~Threw(r)
              /\ size(r.v) = L - 1
              /\ capacity(r.v) = capacity(v)
              /\ r.v.values = v.values
              /\ Elems(r.v, r.h) = ErasedAt(s, L, k)
              /\ r.it = Iter(r.v.values, k)
              /\ k < L - 1 => r.h[r.it.buf][r.it.idx] = s[k + 1]
              /\ k = L - 1 <=> r.it = end(r.v)

\* C13 witness: an object whose last two elements differ, so that erase of the
\* one before the last returns a cursor at the other value, and erase of the
\* last returns end().
C13_Witness ==
  LET v == vec["a"]
      L == size(v)
  IN  /\ v.alive
      /\ L >= 3
      /\ heap[v.values][L - 2] # heap[v.values][L - 1]
      /\ LET r == erase(v, heap, Iter(v.values, L - 2))
         IN  r.h[r.it.buf][r.it.idx] = heap[v.values][L - 1]
      /\ LET r == erase(v, heap, Iter(v.values, L - 1))
         IN  r.it = end(r.v)

\* C14: reserve(n) with n <= capacity() changes nothing: size(), capacity(),
\* the elements, the buffer and every slot of it are as before; with
\* n > capacity() it makes capacity() exactly n and leaves size() and the
\* elements as they were.
C14_Reserve ==
  \A c \in Live :
    LET v == vec[c]
    IN  \A n \in 0..(MaxCap + 1) :
          LET r == reserve(v, heap, n)
          IN  /\ ~Threw(r)
              /\ size(r.v) = size(v)
              /\ Elems(r.v, r.h) = Elems(v, heap)
              /\ n <= capacity(v) => Untouched(r, v, heap)
              /\ n > capacity(v) => capacity(r.v) = n

\* C14 witness: an object with elements of both values and slack, which
\* reserve(capacity()) leaves alone and reserve(capacity() + 1) grows by one.
C14_Witness ==
  LET v == vec["a"]
  IN  /\ v.alive
      /\ size(v) < capacity(v)
      /\ \E i, j \in 0..(size(v) - 1) : heap[v.values][i] # heap[v.values][j]
      /\ reserve(v, heap, capacity(v)).v.values = v.values
      /\ reserve(v, heap, capacity(v) + 1).v.values # v.values
      /\ capacity(reserve(v, heap, capacity(v) + 1).v) = capacity(v) + 1

\* C15: shrink_to_fit changes nothing when size() = capacity(); otherwise it
\* makes capacity() the larger of size() and the floor 5 and leaves size() and
\* the elements as they were; on an empty object capacity() becomes 5.
C15_ShrinkToFit ==
  \A c \in Live :
    LET v == vec[c]
        r == shrink_to_fit(v, heap)
    IN  /\ ~Threw(r)
        /\ size(r.v) = size(v)
        /\ Elems(r.v, r.h) = Elems(v, heap)
        /\ size(v) = capacity(v) => Untouched(r, v, heap)
        /\ size(v) # capacity(v) =>
             /\ capacity(r.v) = (IF size(v) > 5 THEN size(v) ELSE 5)
             /\ DOMAIN r.h[r.v.values] = 0..(capacity(r.v) - 1)
        /\ size(v) = 0 => capacity(r.v) = 5

\* C15 witness: an object with more elements than the floor, of both values,
\* and slack that shrink_to_fit takes away.
C15_Witness ==
  LET v == vec["a"]
  IN  /\ v.alive
      /\ size(v) > 5
      /\ size(v) < capacity(v)
      /\ \E i, j \in 0..(size(v) - 1) : heap[v.values][i] # heap[v.values][j]
      /\ capacity(shrink_to_fit(v, heap).v) = size(v)

\* C16: clear makes size() 0 and a successful pop_back makes it one less;
\* both leave capacity(), the buffer and every slot of it (the slots that stop
\* being elements included) as they were.
C16_ClearPopKeepSlots ==
  \A c \in Live :
    LET v == vec[c]
        cl == clear(v, heap)
        pb == pop_back(v, heap)
    IN  /\ ~Threw(cl)
        /\ size(cl.v) = 0
        /\ capacity(cl.v) = capacity(v)
        /\ cl.v.values = v.values
        /\ cl.h = heap
        /\ size(v) > 0 =>
             /\ ~Threw(pb)
             /\ size(pb.v) = size(v) - 1
             /\ capacity(pb.v) = capacity(v)
             /\ pb.v.values = v.values
             /\ pb.h = heap

\* C16 witness: an object whose last element is not the default value, which
\* stays in its slot after pop_back and after clear.
C16_Witness ==
  LET v == vec["a"]
  IN  /\ v.alive
      /\ size(v) > 1
      /\ heap[v.values][size(v) - 1] # DefaultT
      /\ LET pb == pop_back(v, heap)
         IN  size(pb.v) = size(v) - 1 /\ pb.h[pb.v.values][size(v) - 1] # DefaultT
      /\ LET cl == clear(v, heap)
         IN  size(cl.v) = 0 /\ cl.h[cl.v.values][size(v) - 1] # DefaultT

\* The slots for (it = first; it != last; ++it) visits, in order, each with
\* the value *it reads there.
RECURSIVE Traverse(_, _, _)
Traverse(h, it, last) ==
  IF not_equal(it, last)
  THEN <<[idx |-> it.idx, val |-> deref(h, it)]>> \o Traverse(h, increment(it), last)
  ELSE << >>

\* C17: of every live object begin() is at index 0 and end() at index size()
\* of the buffer it owns, end() - begin() is size(), and the traversal from
\* begin() to end() visits the indices 0 .. size() - 1 in order and no slot of
\* the slack, whatever pop_back, clear or erase left there.
C17_BeginEndTraversal ==
  \A c \in Live :
    LET v == vec[c]
        visited == Traverse(heap, begin(v), end(v))
    IN  /\ begin(v) = Iter(v.values, 0)
        /\ end(v) = Iter(v.values, size(v))
        /\ Distance(end(v), begin(v)) = size(v)
        /\ equal(begin(v), end(v)) <=> empty(v)
        /\ Len(visited) = size(v)
        /\ \A i \in 1..Len(visited) :
             /\ visited[i].idx = i - 1
             /\ visited[i].val = Elems(v, heap)[i - 1]

\* C17 witness: an object with elements and with a value other than the
\* default left behind in the first slot of its slack.
C17_Witness ==
  LET v == vec["a"]
  IN  /\ v.alive
      /\ size(v) >= 2
      /\ size(v) < capacity(v)
      /\ heap[v.values][size(v)] # DefaultT
      /\ heap[v.values][size(v) - 1] = DefaultT
      /\ Len(Traverse(heap, begin(v), end(v))) = size(v)

\* The calls on v that are not structural: push_back with room, pop_back,
\* clear, element reads and writes, reserve within the capacity, shrink_to_fit
\* of a full object, and every failing call.
NonStructural(v, h) ==
  (IF size(v) < capacity(v) THEN {push_back(v, h, x) : x \in T} ELSE {})
  \cup {pop_back(v, h), clear(v, h)}
  \cup {index(v, h, i) : i \in 0..capacity(v)}
  \cup {index_store(v, h, i, x) : i \in 0..size(v), x \in T}
  \cup {reserve(v, h, n) : n \in 0..capacity(v)}
  \cup (IF size(v) = capacity(v) THEN {shrink_to_fit(v, h)} ELSE {})
  \cup {r \in {insert(v, h, pos, x) : pos \in Cursors(v), x \in T} : Threw(r)}
  \cup {r \in {erase(v, h, pos) : pos \in Cursors(v)} : Threw(r)}

\* The calls on v that replace the buffer: reserve above the capacity,
\* shrink_to_fit of an object with slack, push_back and insert on a full one.
Reallocating(v, h) ==
  {reserve(v, h, n) : n \in (capacity(v) + 1)..(capacity(v) + 2)}
  \cup (IF size(v) # capacity(v) THEN {shrink_to_fit(v, h)} ELSE {})
  \cup (IF size(v) = capacity(v)
        THEN {push_back(v, h, x) : x \in T}
             \cup {insert(v, h, pos, x) : pos \in Cursors(v) \ {Iter(v.values, -1),
                                                                  Iter(v.values, size(v) + 1)},
                                          x \in T}
        ELSE {})

\* A cursor obtained as begin() + k refers to slot k of the buffer that the
\* object r.v owns in the heap r.h.
RefersTo(it, k, r) ==
  /\ it.buf = r.v.values
  /\ Distance(it, begin(r.v)) = k
  /\ k <= capacity(r.v)
  /\ DOMAIN r.h[it.buf] = 0..(capacity(r.v) - 1)

\* C18: after a call that is not structural the object owns the buffer it
\* owned before, and every cursor begin() + k obtained before the call still
\* refers to slot k of it; after a call that replaces the buffer the cursor
\* refers to a buffer the object no longer owns, which has been released.
C18_CursorValidity ==
  \A c \in Live :
    LET v == vec[c]
    IN  /\ \A r \in NonStructural(v, heap) \cup {Returned(v, heap)} :
             /\ r.v.values = v.values
             /\ \A k \in 0..size(v) : RefersTo(Iter(v.values, k), k, r)
        /\ \A r \in Reallocating(v, heap) :
             \A k \in 0..size(v) :
               LET it == Iter(v.values, k)
               IN  it.buf # r.v.values /\ r.h[it.buf] = FreeCell

\* C18 witness: an object with one free slot left, where push_back, pop_back,
\* a failing erase and reserve(capacity()) keep the buffer, and
\* shrink_to_fit replaces it.
C18_Witness ==
  LET v == vec["a"]
  IN  /\ v.alive
      /\ size(v) + 1 = capacity(v)
      /\ capacity(v) > min_capacity
      /\ push_back(v, heap, DefaultT).v.values = v.values
      /\ pop_back(v, heap).v.values = v.values
      /\ Threw(erase(v, heap, end(v)))
      /\ reserve(v, heap, capacity(v)).v.values = v.values
      /\ shrink_to_fit(v, heap).v.values # v.values

\* The accesses of every call on v with the arguments of the input sets, of
\* copying v, and of assigning v to a copy of it.
AllAccesses(v, h) ==
  LET cp == Vector_copy(h, v)
  IN  push_back_accesses(v, h)
      \cup UNION {reserve_accesses(v, h, n) : n \in 0..(capacity(v) + 2)}
      \cup shrink_to_fit_accesses(v, h)
      \cup UNION {index_accesses(v, h, i) : i \in 0..capacity(v)}
      \cup UNION {insert_accesses(v, h, pos) : pos \in Cursors(v)}
      \cup UNION {erase_accesses(v, h, pos) : pos \in Cursors(v)}
      \cup Vector_copy_accesses(h, v)
      \cup assign_accesses(cp.v, cp.h, v, FALSE)

\* C19: every slot that push_back, insert, erase, reserve, shrink_to_fit, the
\* copy operations and a successful operator[] read or write has an index in
\* [0, slots) of the array accessed at that moment; insert writes index size()
\* in an array of more than size() slots.
C19_AccessesWithinCapacity ==
  \A c \in Live :
    LET v == vec[c]
    IN  /\ \A a \in AllAccesses(v, heap) : 0 <= a.idx /\ a.idx < a.slots
        /\ \A k \in 0..size(v) :
             \A a \in insert_accesses(v, heap, Iter(v.values, k)) :
               a.idx = size(v) => a.slots > size(v)

\* C19 witness: a full object that has grown once, on which insert at begin()
\* shifts every element and writes index size() of an array twice as long.
C19_Witness ==
  LET v == vec["a"]
  IN  /\ v.alive
      /\ size(v) = capacity(v)
      /\ capacity(v) > min_capacity
      /\ Access(size(v), 2 * capacity(v)) \in insert_accesses(v, heap, begin(v))
      /\ Access(0, 2 * capacity(v)) \in insert_accesses(v, heap, begin(v))
      /\ Access(size(v) - 1, capacity(v)) \in erase_accesses(v, heap, begin(v))

\* The array of the object r.v in the heap r.h.
Buffer(r) == r.h[r.v.values]

\* The copies of the live object d: the copy-constructed one, and every other
\* live object after copy-assignment from d.
CopiesOf(d) ==
  {Vector_copy(heap, vec[d])}
  \cup {assign(vec[c], heap, vec[d], FALSE) : c \in Live \ {d}}

\* C20 as stated: every one of the capacity() slots of the array of a copy,
\* the slots at indices >= size() included, holds what the same slot of the
\* source's array holds.
C20_AsStated ==
  \A d \in Live :
    \A r \in CopiesOf(d) :
      \A i \in 0..(capacity(vec[d]) - 1) : Buffer(r)[i] = heap[vec[d].values][i]

\* C20 as amended: the array of a copy has capacity() slots, of which those at
\* indices < size() hold what the source's hold, and those at indices
\* >= size() hold the value-initialised T(), whatever the source's hold.
C20_CopyTakesElementsOnly ==
  \A d \in Live :
    \A r \in CopiesOf(d) :
      /\ DOMAIN Buffer(r) = 0..(capacity(vec[d]) - 1)
      /\ \A i \in 0..(capacity(vec[d]) - 1) :
           Buffer(r)[i] = IF i < size(vec[d]) THEN heap[vec[d].values][i] ELSE DefaultT

\* C20 witness: b has the size, capacity, elements and array of a copy of a,
\* and a slot of a's slack holds a value that the same slot of b does not.
C20_Witness ==
  /\ Live = Objs
  /\ Mirrors(Returned(vec["b"], heap), vec["a"], heap)
  /\ heap[vec["b"].values] = Buffer(Vector_copy(heap, vec["a"]))
  /\ \E i \in size(vec["a"])..(capacity(vec["a"]) - 1) :
       /\ heap[vec["a"].values][i] # DefaultT
       /\ heap[vec["b"].values][i] = DefaultT

====
